---- MODULE Spec2Model ----
(***************************************************************************)
(* Model of server/src/ipc_bench.cc: an L4 IPC round-trip benchmark.       *)
(*                                                                         *)
(*   main        creates thread2, asks the scheduler to place it on CPU 1  *)
(*               and runs thread1_fn in place.                             *)
(*   thread1_fn  the initiator: BENCH_SIZE times l4_ipc_call to thread2,   *)
(*               accumulating cycles and the wall-clock difference between *)
(*               its own time stamp and the one thread2 replies with.      *)
(*   thread2_fn  the responder: l4_ipc_wait, then forever                  *)
(*               stamp / l4_ipc_reply_and_wait.                            *)
(*                                                                         *)
(* The kernel's IPC is the environment.  It is modelled by the phases the  *)
(* L4 operations have: a call is a send phase followed by a receive phase, *)
(* a reply-and-wait is a send phase (the reply) followed by an open wait,  *)
(* and each phase either completes or returns a non-zero error to the      *)
(* thread that is in it.  Each thread has its own UTCB, so l4_utcb_mr() is  *)
(* mr1 in thread1_fn and mr2 in thread2_fn; the kernel copies as many      *)
(* words as the message tag says (0 for the call, 2 for the reply).        *)
(*                                                                         *)
(* Scaling: TLC's integers are 32 bit, so one second has NSEC_PER_SEC      *)
(* clock units instead of 1000000000, and BENCH_SIZE is small.  The loop   *)
(* counter keeps its 32 bits as two 16-bit halves.                         *)
(***************************************************************************)
EXTENDS Integers, Sequences, FiniteSets, TLC

\* ---------------------------------------------------------------- bounds
\* Number of successful round trips (100000 in the source, line 34).
BENCH_SIZE == 2
\* Clock units per second (1000000000 in the source, lines 67, 80, 83, 84).
NSEC_PER_SEC == 3
\* The monotonic clock stops advancing at MaxNow units.
MaxNow == 5
\* Cycles the time stamp counter advances per clock unit.
CyclesPerTick == 2
\* Transport errors the environment injects in one run.
MaxErrs == 2

\* The source's values of the two scaled constants (lines 34 and 67).
BENCH_SIZE_SRC == 100000
NSEC_PER_SEC_SRC == 1000000000

\* Non-zero error codes l4_ipc_error can return.
ErrCodes == {1}
\* Two message registers, indexed as in the source: mr[0], mr[1].
MR(a, b) == [k \in 0..1 |-> IF k = 0 THEN a ELSE b]
\* What the main thread's message registers may hold when thread1_fn starts
\* (left there by the run_thread IPC; the program never initialises them).
StaleWords == {MR(0, 0), MR(1, 2)}

VARIABLES
  ipc,        \* position of the main thread (main, then thread1_fn)
  rpc,        \* position of thread2
  i,          \* thread1_fn: loop counter (unsigned, two 16-bit halves)
  tp,         \* thread1_fn: send time stamp [tv_sec, tv_nsec]
  tsc_start,  \* thread1_fn: cycle counter before the call
  tsc_sum,    \* thread1_fn: total cycles
  ts_total,   \* thread1_fn: total elapsed time [tv_sec, tv_nsec]
  tag1,       \* thread1_fn: error code of the tag the last call returned
  mr1,        \* message registers of the main thread's UTCB
  tag2,       \* thread2_fn: error code of the tag the last wait returned
  mr2,        \* message registers of thread2's UTCB
  rop,        \* thread2_fn: the transport operation it last issued
  now,        \* the monotonic clock, in clock units
  placed,     \* outcome of run_thread: "none", "ok", "failed"
  status,     \* exit status of main: "running", "exit0", "exit1"
  out,        \* what thread1_fn printed: empty, or the record of its numbers
  hist        \* history of the run (what happened so far)

vars == <<ipc, rpc, i, tp, tsc_start, tsc_sum, ts_total, tag1, mr1, tag2, mr2,
          rop, now, placed, status, out, hist>>

t1vars == <<i, tp, tsc_start, tsc_sum, ts_total, tag1, mr1, out>>
t2vars == <<tag2, mr2, rop>>
mainvars == <<placed, status>>

\* ------------------------------------------------------- pure functions

\* unsigned (32 bit) as [hi, lo], each 16 bit.
U32(n) == [hi |-> 0, lo |-> n]

U32Inc(u) ==
  IF u.lo = 65535 THEN [hi |-> (u.hi + 1) % 65536, lo |-> 0]
  ELSE [hi |-> u.hi, lo |-> u.lo + 1]

\* A decrement that stops at 0 instead of wrapping.
U32DecSaturating(u) ==
  IF u.lo = 0 /\ u.hi = 0 THEN u
  ELSE IF u.lo = 0 THEN [hi |-> u.hi - 1, lo |-> 65535]
  ELSE [hi |-> u.hi, lo |-> u.lo - 1]

U32Dec(u) ==
  IF u.lo = 0 THEN [hi |-> (u.hi + 65535) % 65536, lo |-> 65535]
  ELSE [hi |-> u.hi, lo |-> u.lo - 1]

\* i < BENCH_SIZE (line 44), BENCH_SIZE below 2^16 in the model.
LoopCond(u) == u.hi = 0 /\ u.lo < BENCH_SIZE

\* clock_gettime(CLOCK_MONOTONIC, &tp)
ClockGettime == [tv_sec |-> now \div NSEC_PER_SEC, tv_nsec |-> now % NSEC_PER_SEC]

\* __builtin_ia32_rdtsc()
Rdtsc == now * CyclesPerTick

CyclesOnSuccessOnly(sum, start, cycles, err) ==
  IF err # 0 THEN sum ELSE sum + (cycles - start)

\* Line 53: tsc_sum += rdtsc() - tsc_start, whatever the tag says.
CyclesAfterCall(sum, start, cycles, err) == sum + (cycles - start)

\* The borrow taken in both branches.
AccumulateAlwaysBorrow(ts, t, mr) ==
  [tv_sec  |-> ts.tv_sec + (mr[0] + 1 - t.tv_sec),
   tv_nsec |-> ts.tv_nsec + (mr[1] + NSEC_PER_SEC - t.tv_nsec)]

\* The subtraction without the borrow branch.
AccumulateNoBorrow(ts, t, mr) ==
  [tv_sec  |-> ts.tv_sec + (mr[0] - t.tv_sec),
   tv_nsec |-> ts.tv_nsec + (mr[1] - t.tv_nsec)]

\* Lines 64-71: the elapsed time of one successful trial added to ts_total.
Accumulate(ts, t, mr) ==
  IF t.tv_nsec > mr[1]
  THEN [tv_sec  |-> ts.tv_sec + (mr[0] + 1 - t.tv_sec),
        tv_nsec |-> ts.tv_nsec + (mr[1] + NSEC_PER_SEC - t.tv_nsec)]
  ELSE [tv_sec  |-> ts.tv_sec + (mr[0] - t.tv_sec),
        tv_nsec |-> ts.tv_nsec + (mr[1] - t.tv_nsec)]

NextTotalNoElse(err, ts, t, mr) == Accumulate(ts, t, mr)

\* Lines 55-72: ts_total after the branch on ipc_error.
NextTotal(err, ts, t, mr) == IF err # 0 THEN ts ELSE Accumulate(ts, t, mr)

NextIndexNoRetry(err, u) == u

\* Lines 55-60: the loop counter after the branch on ipc_error (--i on error).
NextIndex(err, u) == IF err # 0 THEN U32Dec(u) ELSE u

\* Lines 80-85: the numbers the three printf calls are given.
Report(ts, cycles) ==
  LET seconds_as_ns == ts.tv_sec * NSEC_PER_SEC
  IN  [total_sec  |-> ts.tv_sec,
       total_nsec |-> ts.tv_nsec,
       avg_sec    |-> (seconds_as_ns \div NSEC_PER_SEC) \div BENCH_SIZE,
       avg_nsec   |-> (ts.tv_nsec + (seconds_as_ns % NSEC_PER_SEC)) \div BENCH_SIZE,
       avg_cycles |-> cycles \div BENCH_SIZE]

T2NextIgnoreError(err) == "stamp"

\* thread2_fn leaving its loop on an error.
T2NextReturnOnError(err) == IF err # 0 THEN "returned" ELSE "stamp"

\* Line 120: l4_msgtag(0, 2, 0, 0), the number of words of the reply.
ReplyWords == 2

\* The kernel copies the first n message registers of the sender.
Transfer(n, from, to) == [k \in 0..1 |-> IF k < n THEN from[k] ELSE to[k]]

StampStale(t, mr) == mr

\* Lines 112-115: the message registers after the time stamp is written.
Stamp(t, mr) == [mr EXCEPT ![0] = t.tv_sec, ![1] = t.tv_nsec]

\* Lines 104-110: where thread2 goes after looking at the tag.
T2Next(err) == IF err # 0 THEN "wait" ELSE "stamp"

\* ------------------------------------------------------------------ Init

Init ==
  /\ ipc = "create"
  /\ rpc = "none"
  /\ i = U32(0)
  /\ tp = [tv_sec |-> 0, tv_nsec |-> 0]
  /\ tsc_start = 0
  /\ tsc_sum = 0
  /\ ts_total = [tv_sec |-> 0, tv_nsec |-> 0]
  /\ tag1 = 0
  /\ mr1 \in StaleWords
  /\ tag2 = 0
  /\ mr2 = MR(0, 0)
  /\ rop = "none"
  /\ now = 0
  /\ placed = "none"
  /\ status = "running"
  /\ out = <<>>
  /\ hist = [created  |-> "none",  \* outcome of pthread_create: "ok", "failed"
             calls    |-> 0,   \* calls issued by thread1_fn
             succ     |-> 0,   \* calls that returned without error
             fails    |-> 0,   \* calls that returned an error
             deltas   |-> 0,   \* sum of the cycle deltas of all returned calls
             measured |-> 0,   \* returned calls whose cycle delta was taken
             pending  |-> {},  \* calls issued and not yet returned
             recv     |-> 0,   \* the call whose request thread2 received last
             recvAt   |-> 0,   \* the clock when thread2 received the request
                               \* it is serving (0 when it serves none)
             woken    |-> 0,   \* wake-ups of thread2 without error
             replying |-> 0,   \* the call thread2 stamped its last reply for
             answered |-> 0,   \* the call the last delivered reply was sent for
             nreplies |-> 0,   \* replies delivered to the current call
             sent     |-> 0,   \* replies thread2 has handed to the kernel
             errs     |-> 0]   \* transport errors injected

\* --------------------------------------------------------- the clock

Tick ==
  /\ now < MaxNow
  /\ now' = now + 1
  /\ UNCHANGED <<ipc, rpc, t1vars, t2vars, mainvars, hist>>

\* ------------------------------------------------------------- main

\* pthread_create whose failure is reported without returning from main.
MainCreateNoReturn ==
  /\ ipc = "create"
  /\ \E ok \in BOOLEAN :
       /\ rpc' = IF ok THEN "start" ELSE rpc
       /\ hist' = [hist EXCEPT !.created = IF ok THEN "ok" ELSE "failed"]
  /\ ipc' = "place"
  /\ UNCHANGED <<t1vars, t2vars, now, placed, status>>

\* pthread_create followed at once by thread1_fn, without run_thread.
MainCreateSkipPlace ==
  /\ ipc = "create"
  /\ \E ok \in BOOLEAN :
       IF ok
       THEN /\ ipc' = "loop"
            /\ rpc' = "start"
            /\ status' = status
            /\ hist' = [hist EXCEPT !.created = "ok"]
       ELSE /\ ipc' = "exited"
            /\ rpc' = rpc
            /\ status' = "exit1"
            /\ hist' = [hist EXCEPT !.created = "failed"]
  /\ UNCHANGED <<t1vars, t2vars, now, placed>>

\* Lines 133-137: pthread_create; failure is reported and main returns 1.
MainCreate ==
  /\ ipc = "create"
  /\ \E ok \in BOOLEAN :
       IF ok
       THEN /\ ipc' = "place"
            /\ rpc' = "start"
            /\ status' = status
            /\ hist' = [hist EXCEPT !.created = "ok"]
       ELSE /\ ipc' = "exited"
            /\ rpc' = rpc
            /\ status' = "exit1"
            /\ hist' = [hist EXCEPT !.created = "failed"]
  /\ UNCHANGED <<t1vars, t2vars, now, placed>>

\* run_thread whose failure makes main return 1.
MainPlaceFatal ==
  /\ ipc = "place"
  /\ \E ok \in BOOLEAN :
       IF ok
       THEN /\ placed' = "ok"
            /\ ipc' = "loop"
            /\ status' = status
       ELSE /\ placed' = "failed"
            /\ ipc' = "exited"
            /\ status' = "exit1"
  /\ UNCHANGED <<rpc, t1vars, t2vars, now, hist>>

\* Lines 140-145: run_thread; failure is printed and main goes on.
MainPlace ==
  /\ ipc = "place"
  /\ \E ok \in BOOLEAN : placed' = IF ok THEN "ok" ELSE "failed"
  /\ ipc' = "loop"
  /\ UNCHANGED <<rpc, t1vars, t2vars, now, status, hist>>

\* -------------------------------------------------------- thread1_fn

\* Lines 44-51: the loop test holds; take the time stamp and the cycle
\* counter and enter l4_ipc_call (its send phase).
T1Loop ==
  /\ ipc = "loop"
  /\ LoopCond(i)
  /\ tp' = ClockGettime
  /\ tsc_start' = Rdtsc
  /\ ipc' = "call_send"
  /\ hist' = [hist EXCEPT !.calls = @ + 1,
                          !.pending = @ \cup {hist.calls + 1},
                          !.nreplies = 0]
  /\ UNCHANGED <<rpc, i, tsc_sum, ts_total, tag1, mr1, out, t2vars, now, mainvars>>

\* Lines 53-54: the call has returned.
T1Cycles ==
  /\ ipc = "ret"
  /\ tsc_sum' = CyclesAfterCall(tsc_sum, tsc_start, Rdtsc, tag1)
  /\ ipc' = "chk"
  /\ hist' = [hist EXCEPT !.deltas = @ + (Rdtsc - tsc_start), !.measured = @ + 1]
  /\ UNCHANGED <<rpc, i, tp, tsc_start, ts_total, tag1, mr1, out, t2vars, now, mainvars>>

\* Lines 55-72: the branch on ipc_error.
T1Check ==
  /\ ipc = "chk"
  /\ ts_total' = NextTotal(tag1, ts_total, tp, mr1)
  /\ i' = NextIndex(tag1, i)
  /\ ipc' = "clear"
  /\ UNCHANGED <<rpc, tp, tsc_start, tsc_sum, tag1, mr1, out, t2vars, now, mainvars, hist>>

\* The end of an iteration without the reset of lines 75-76.
T1ClearNothing ==
  /\ ipc = "clear"
  /\ i' = U32Inc(i)
  /\ ipc' = "loop"
  /\ UNCHANGED <<rpc, tp, tsc_start, tsc_sum, ts_total, tag1, mr1, out, t2vars, now, mainvars, hist>>

\* Lines 75-77 and the ++i of line 44.
T1Clear ==
  /\ ipc = "clear"
  /\ mr1' = MR(0, 0)
  /\ i' = U32Inc(i)
  /\ ipc' = "loop"
  /\ UNCHANGED <<rpc, tp, tsc_start, tsc_sum, ts_total, tag1, out, t2vars, now, mainvars, hist>>

\* Lines 79-86 and 149-150: the loop test fails; print and return 0.
T1Report ==
  /\ ipc = "loop"
  /\ ~LoopCond(i)
  /\ out' = <<Report(ts_total, tsc_sum)>>
  /\ status' = "exit0"
  /\ ipc' = "exited"
  /\ UNCHANGED <<rpc, i, tp, tsc_start, tsc_sum, ts_total, tag1, mr1, t2vars, now, placed, hist>>

\* -------------------------------------------------------- thread2_fn

\* Line 99: the first l4_ipc_wait.
T2Start ==
  /\ rpc = "start"
  /\ rpc' = "wait"
  /\ rop' = "wait"
  /\ UNCHANGED <<ipc, t1vars, tag2, mr2, now, mainvars, hist>>

\* Lines 104-110: on an error print it and l4_ipc_wait again.
T2Check ==
  /\ rpc = "check"
  /\ rpc' = T2Next(tag2)
  /\ rop' = IF rpc' = "wait" THEN "wait" ELSE rop
  /\ UNCHANGED <<ipc, t1vars, tag2, mr2, now, mainvars, hist>>

\* Lines 112-121: stamp the time into the message registers and enter
\* l4_ipc_reply_and_wait (its send phase) with a tag of two words.
T2Stamp ==
  /\ rpc = "stamp"
  /\ mr2' = Stamp(ClockGettime, mr2)
  /\ rpc' = "reply"
  /\ rop' = "reply_and_wait"
  /\ hist' = [hist EXCEPT !.sent = @ + 1, !.replying = hist.recv]
  /\ UNCHANGED <<ipc, t1vars, tag2, now, mainvars>>

\* ------------------------------------------------------ the transport

Returned(h, ok) ==
  [h EXCEPT !.pending = {},
            !.succ = IF ok THEN @ + 1 ELSE @,
            !.fails = IF ok THEN @ ELSE @ + 1]

\* The request is delivered and the caller does not wait for the reply
\* (a send in place of the call).
RendezvousNoReceive ==
  /\ ipc = "call_send"
  /\ rpc = "wait"
  /\ ipc' = "ret"
  /\ tag1' = 0
  /\ rpc' = "check"
  /\ tag2' = 0
  /\ hist' = [Returned(hist, TRUE) EXCEPT !.recv = hist.calls, !.recvAt = now,
                                          !.woken = @ + 1]
  /\ UNCHANGED <<i, tp, tsc_start, tsc_sum, ts_total, mr1, out, mr2, rop, now, mainvars>>

\* l4_ipc_call (lines 50-51) meets l4_ipc_wait or the wait phase of
\* l4_ipc_reply_and_wait (lines 99, 108, 120): the request, of 0 words, is
\* delivered; thread2 wakes up without error and thread1 goes on to the
\* receive phase of its call, waiting for the reply with L4_IPC_NEVER.
Rendezvous ==
  /\ ipc = "call_send"
  /\ rpc = "wait"
  /\ ipc' = "call_recv"
  /\ rpc' = "check"
  /\ tag2' = 0
  /\ hist' = [hist EXCEPT !.recv = hist.calls, !.recvAt = now, !.woken = @ + 1]
  /\ UNCHANGED <<t1vars, mr2, rop, now, mainvars>>

\* The send phase of l4_ipc_call fails: nothing is delivered.
CallSendError ==
  /\ ipc = "call_send"
  /\ hist.errs < MaxErrs
  /\ \E e \in ErrCodes : tag1' = e
  /\ ipc' = "ret"
  /\ hist' = [Returned(hist, FALSE) EXCEPT !.errs = @ + 1]
  /\ UNCHANGED <<rpc, i, tp, tsc_start, tsc_sum, ts_total, mr1, out, t2vars, now, mainvars>>

\* The receive phase of l4_ipc_call fails: the request was delivered, the
\* call returns an error and the reply is never received.
CallRecvError ==
  /\ ipc = "call_recv"
  /\ hist.errs < MaxErrs
  /\ \E e \in ErrCodes : tag1' = e
  /\ ipc' = "ret"
  /\ hist' = [Returned(hist, FALSE) EXCEPT !.errs = @ + 1]
  /\ UNCHANGED <<rpc, i, tp, tsc_start, tsc_sum, ts_total, mr1, out, t2vars, now, mainvars>>

\* l4_ipc_wait, or the wait phase of l4_ipc_reply_and_wait, fails.
WaitError ==
  /\ rpc = "wait"
  /\ hist.errs < MaxErrs
  /\ \E e \in ErrCodes : tag2' = e
  /\ rpc' = "check"
  /\ hist' = [hist EXCEPT !.errs = @ + 1]
  /\ UNCHANGED <<ipc, t1vars, mr2, rop, now, mainvars>>

\* The send phase of l4_ipc_reply_and_wait (lines 120-121) completes: the
\* caller is in the receive phase of its call, the two words of the tag are
\* copied into its message registers, its call returns without error, and
\* thread2 goes on to the wait phase.
ReplyDeliver ==
  /\ rpc = "reply"
  /\ ipc = "call_recv"
  /\ mr1' = Transfer(ReplyWords, mr2, mr1)
  /\ tag1' = 0
  /\ ipc' = "ret"
  /\ rpc' = "wait"
  /\ hist' = [Returned(hist, TRUE) EXCEPT !.answered = hist.replying,
                                          !.nreplies = @ + 1,
                                          !.recvAt = 0]
  /\ UNCHANGED <<i, tp, tsc_start, tsc_sum, ts_total, out, t2vars, now, mainvars>>

\* The send phase of l4_ipc_reply_and_wait fails: the reply is not
\* delivered, the wait phase is skipped and the error is returned.  It is
\* the only outcome when the caller is no longer waiting for the reply, and
\* it does not count as an injected error then.
ReplyError ==
  /\ rpc = "reply"
  /\ ipc = "call_recv" => hist.errs < MaxErrs
  /\ \E e \in ErrCodes : tag2' = e
  /\ rpc' = "check"
  /\ hist' = [hist EXCEPT !.errs = IF ipc = "call_recv" THEN @ + 1 ELSE @,
                          !.recvAt = 0]
  /\ UNCHANGED <<ipc, t1vars, mr2, rop, now, mainvars>>

\* ------------------------------------------------------------------ Spec

Next ==
  \/ Tick
  \/ MainCreate
  \/ MainPlace
  \/ T1Loop
  \/ T1Cycles
  \/ T1Check
  \/ T1Clear
  \/ T1Report
  \/ T2Start
  \/ T2Check
  \/ T2Stamp
  \/ Rendezvous
  \/ CallSendError
  \/ CallRecvError
  \/ WaitError
  \/ ReplyDeliver
  \/ ReplyError

Spec == Init /\ [][Next]_vars

\* ---------------------------------------------------------------- claims

\* thread1_fn has printed its report (lines 81-85).
Printed == out # <<>>

\* thread1_fn has left its loop (line 79 onwards).
LoopExited == (ipc = "loop" /\ ~LoopCond(i)) \/ Printed

\* The call of the current iteration has returned, without / with an error.
TrialSucceeded == ipc \in {"ret", "chk", "clear"} /\ tag1 = 0
TrialFailed == ipc \in {"ret", "chk", "clear"} /\ tag1 # 0

\* C1: when the initiator loop exits, exactly BENCH_SIZE calls have returned
\* without error, however many errors were injected and wherever; before
\* that there are never more than BENCH_SIZE of them.
C1_RetryCompleteness ==
  /\ hist.succ <= BENCH_SIZE
  /\ LoopExited => hist.succ = BENCH_SIZE

C1_Witness == Printed /\ hist.fails = MaxErrs /\ hist.calls = BENCH_SIZE + MaxErrs

\* C2: on a successful trial with send stamp (s1, n1) and reply stamp
\* (s2, n2) the initiator adds (s2 - s1 - 1, n2 + NSEC_PER_SEC - n1) to
\* ts_total when n2 < n1 and (s2 - s1, n2 - n1) otherwise.
C2_BorrowLogic ==
  [][(ipc = "chk" /\ tag1 = 0 /\ ipc' = "clear") =>
       LET s1 == tp.tv_sec
           n1 == tp.tv_nsec
           s2 == mr1[0]
           n2 == mr1[1]
       IN  IF n2 < n1
           THEN /\ ts_total'.tv_sec = ts_total.tv_sec + (s2 - s1 - 1)
                /\ ts_total'.tv_nsec = ts_total.tv_nsec + (n2 + NSEC_PER_SEC - n1)
           ELSE /\ ts_total'.tv_sec = ts_total.tv_sec + (s2 - s1)
                /\ ts_total'.tv_nsec = ts_total.tv_nsec + (n2 - n1)]_vars

\* C3: in an iteration whose call returned an error no step changes
\* ts_total, whatever the message registers hold.
C3_FailedTrialFrame == [][TrialFailed => ts_total' = ts_total]_vars

C3_Witness == ipc = "clear" /\ tag1 # 0 /\ mr1 # MR(0, 0) /\ mr1[1] # tp.tv_nsec

\* C4: tsc_sum is the sum of the cycle deltas of all calls that returned,
\* failed ones included, and when the loop has exited every one of the
\* BENCH_SIZE + E calls has been measured once.
C4_CycleAccounting ==
  /\ tsc_sum = hist.deltas
  /\ LoopExited => hist.measured = BENCH_SIZE + hist.fails

C4_Witness == Printed /\ hist.fails > 0 /\ hist.measured > BENCH_SIZE /\ tsc_sum > 0

\* C5: the printed average is (S * NSEC_PER_SEC + N) / BENCH_SIZE as whole
\* seconds and a nanosecond part below NSEC_PER_SEC, for the final
\* ts_total = (S, N).
C5_ReportedAverage ==
  Printed =>
    LET avg == (ts_total.tv_sec * NSEC_PER_SEC + ts_total.tv_nsec) \div BENCH_SIZE
    IN  /\ out[1].avg_sec = avg \div NSEC_PER_SEC
        /\ out[1].avg_nsec = avg % NSEC_PER_SEC

\* C6: the printed total has its nanosecond part below NSEC_PER_SEC and
\* stands for the accumulated total.
C6_ReportedTotalNormalized ==
  Printed =>
    /\ out[1].total_nsec \in 0..(NSEC_PER_SEC - 1)
    /\ out[1].total_sec * NSEC_PER_SEC + out[1].total_nsec
         = ts_total.tv_sec * NSEC_PER_SEC + ts_total.tv_nsec

\* C7: once a transport error has been observed it is never the case that
\* the initiator is blocked waiting for a reply while the responder is
\* blocked waiting for a request.
C7_SelfHealing ==
  hist.errs > 0 => ~(ipc = "call_recv" /\ rpc = "wait")

\* C8: at most one request is outstanding, the next trial starts only after
\* the call of the previous one has returned, and a call that returned
\* without error was answered by exactly one reply, stamped by the responder
\* after it had received the request of that very call.
C8_SequentialPairing ==
  /\ Cardinality(hist.pending) <= 1
  /\ ipc = "loop" => hist.pending = {}
  /\ ipc \in {"call_send", "call_recv"} => hist.pending = {hist.calls}
  /\ TrialSucceeded => /\ hist.nreplies = 1
                       /\ hist.answered = hist.calls

C8_Witness == TrialSucceeded /\ hist.fails > 0 /\ hist.sent > hist.succ

C10_DropsFailedRequest ==
  [][(rpc = "check" /\ tag2 # 0 /\ rpc' # rpc) =>
       /\ rpc' = "wait"
       /\ rop' = "wait"
       /\ mr2' = mr2
       /\ hist'.sent = hist.sent]_vars

C10_Witness == rpc = "wait" /\ rop = "wait" /\ tag2 # 0 /\ hist.sent > 0

\* A (seconds, nanoseconds) pair of message registers in clock units.
Units(mr) == mr[0] * NSEC_PER_SEC + mr[1]

\* C11: every wake-up of the responder without error is answered by exactly
\* one reply, of two words, that carries a clock reading taken after the
\* request was received and before the reply is handed to the kernel, never
\* an earlier stamp; the caller receives both words.
C11_ReplyContent ==
  /\ hist.sent = hist.woken - (IF rpc = "stamp" \/ (rpc = "check" /\ tag2 = 0) THEN 1 ELSE 0)
  /\ rpc = "reply" => /\ hist.recvAt <= Units(mr2)
                      /\ Units(mr2) <= now
                      /\ mr2[1] \in 0..(NSEC_PER_SEC - 1)
                      /\ hist.replying = hist.recv
  /\ (ipc \in {"ret", "chk"} /\ tag1 = 0) => mr1 = mr2

C11_Witness == rpc = "reply" /\ hist.sent > 1 /\ hist.recvAt > 0 /\ Units(mr2) > hist.recvAt

\* A timespec in clock units.
TimeUnits(t) == t.tv_sec * NSEC_PER_SEC + t.tv_nsec

\* C12: on a successful trial the reply stamp is not earlier than the send
\* stamp, and no step ever decreases a field of ts_total, which starts at 0.
C12_MonotoneAccumulation ==
  [][/\ (ipc = "chk" /\ tag1 = 0) => Units(mr1) >= TimeUnits(tp)
     /\ ts_total.tv_sec >= 0
     /\ ts_total.tv_nsec >= 0
     /\ ts_total'.tv_sec >= ts_total.tv_sec
     /\ ts_total'.tv_nsec >= ts_total.tv_nsec]_vars

C12_Witness ==
  /\ ipc = "clear" /\ tag1 = 0 /\ hist.succ = BENCH_SIZE /\ hist.fails > 0
  /\ mr1[1] < tp.tv_nsec
  /\ ts_total.tv_sec > 0 /\ ts_total.tv_nsec > 0

\* ------------------------------------------------------------- fairness

\* The main thread and thread2 keep running when they can, and the kernel
\* completes a rendezvous or a reply that is possible; a reply to a caller
\* that is no longer waiting fails at once.  Errors are not forced to
\* happen, and at most MaxErrs of them are injected, so every trial fails
\* only finitely many times.
MainStep == MainCreate \/ MainPlace \/ T1Loop \/ T1Cycles \/ T1Check \/ T1Clear \/ T1Report
T2Step == T2Start \/ T2Check \/ T2Stamp
ReplyAbandoned == ipc # "call_recv" /\ ReplyError

LiveSpec ==
  /\ Spec
  /\ WF_vars(MainStep)
  /\ WF_vars(T2Step)
  /\ WF_vars(Rendezvous)
  /\ WF_vars(ReplyDeliver)
  /\ WF_vars(ReplyAbandoned)

\* C13: once the initiator loop has started, with finitely many transport
\* errors, the initiator eventually leaves the loop and prints its report.
C13_Termination == (ipc = "loop") ~> Printed

\* C14: if pthread_create fails, main returns a non-zero status at once: no
\* placement request is submitted, the initiator loop is never started, no
\* call is issued and nothing is printed.
C14_CreateFailureFatal ==
  hist.created = "failed" =>
    /\ status = "exit1"
    /\ ipc = "exited"
    /\ placed = "none"
    /\ rpc = "none"
    /\ hist.calls = 0
    /\ i = U32(0)
    /\ ~Printed

C14_Witness == hist.created = "failed" /\ status = "exit1" /\ now > 0

\* C15: if run_thread fails, main goes on to the initiator loop and never
\* returns 1; when main has returned it has printed the report after
\* BENCH_SIZE successful trials and returned 0, as it does when the
\* placement succeeds.
C15_PlacementNonFatal ==
  /\ placed = "failed" => /\ ipc # "place"
                          /\ status # "exit1"
  /\ (placed # "none" /\ ipc = "exited") => /\ status = "exit0"
                                            /\ Printed
                                            /\ hist.succ = BENCH_SIZE

C15_Witness == placed = "failed" /\ status = "exit0" /\ Printed /\ hist.succ = BENCH_SIZE

\* C18: a placement request is submitted only after thread2 was created,
\* and the initiator issues a call only after the placement request was
\* submitted.
C18_BootstrapOrder ==
  /\ placed # "none" => hist.created = "ok"
  /\ ipc \in {"loop", "call_send", "call_recv", "ret", "chk", "clear"} => placed # "none"
  /\ hist.calls > 0 => /\ placed # "none"
                       /\ hist.created = "ok"
  /\ rpc # "none" => hist.created = "ok"

C18_Witness == hist.calls = 1 /\ ipc = "call_send" /\ placed = "ok" /\ rpc = "start"

\* C16 as claimed: both message registers are 0 at the end of every
\* iteration and when each call is issued, the first one included, and a
\* successful trial reads the words the responder wrote for that exchange.
C16_ZeroAtEveryCall ==
  /\ (ipc = "loop" /\ hist.calls > 0) => mr1 = MR(0, 0)
  /\ ipc \in {"call_send", "call_recv"} => mr1 = MR(0, 0)
  /\ (ipc = "chk" /\ tag1 = 0) => /\ mr1 = mr2
                                  /\ hist.answered = hist.calls

\* C16 as amended: both message registers are 0 at the end of every
\* iteration, hence when every call but the first is issued (the first is
\* issued with whatever the registers held before thread1_fn), and a
\* successful trial reads the words the responder wrote for that exchange.
C16_BufferReset ==
  /\ (ipc = "loop" /\ hist.calls > 0) => mr1 = MR(0, 0)
  /\ (ipc \in {"call_send", "call_recv"} /\ hist.calls > 1) => mr1 = MR(0, 0)
  /\ (ipc = "chk" /\ tag1 = 0) => /\ mr1 = mr2
                                  /\ hist.answered = hist.calls

C16_Witness ==
  /\ ipc = "chk" /\ tag1 = 0 /\ hist.fails > 0 /\ hist.succ = BENCH_SIZE
  /\ mr1 # MR(0, 0) /\ hist.sent > hist.succ

\* The loop counter value 2^32 - 1.
U32Max == [hi |-> 65535, lo |-> 65535]

\* C17: the loop index of every attempt is the number of trials that have
\* succeeded so far, so a failed call at index k is followed by an attempt
\* at index k; after a failure at index 0 the counter is 2^32 - 1 until the
\* loop increment makes it 0 again, before the loop test.
C17_RetrySameIndex ==
  /\ ipc \in {"loop", "call_send", "call_recv"} /\ hist.created = "ok" /\ placed # "none"
       => i = U32(hist.succ)
  /\ (ipc \in {"ret", "chk"} /\ tag1 # 0) => i = U32(hist.succ)
  /\ (ipc \in {"ret", "chk", "clear"} /\ tag1 = 0) => i = U32(hist.succ - 1)
  /\ (ipc = "clear" /\ tag1 # 0) =>
        i = IF hist.succ = 0 THEN U32Max ELSE U32(hist.succ - 1)
  /\ ipc \in {"loop", "call_send", "call_recv", "ret", "chk"} => i.hi = 0 /\ i.lo <= BENCH_SIZE

C17_Witness == ipc = "clear" /\ tag1 # 0 /\ i = U32Max /\ hist.fails = MaxErrs

\* C19: every successful trial adds less than NSEC_PER_SEC to
\* ts_total.tv_nsec and never a negative amount, so after m accumulated
\* trials 0 <= ts_total.tv_nsec <= m * (NSEC_PER_SEC - 1); with the source's
\* constants that is below 2^17 * 2^30 = 2^47, far from 2^63.
Accumulated == hist.succ - (IF ipc \in {"ret", "chk"} /\ tag1 = 0 THEN 1 ELSE 0)

C19_NsecBound ==
  /\ ts_total.tv_nsec >= 0
  /\ ts_total.tv_nsec <= Accumulated * (NSEC_PER_SEC - 1)
  /\ Accumulated <= BENCH_SIZE
  /\ BENCH_SIZE_SRC < 131072
  /\ NSEC_PER_SEC_SRC < 1073741824
  /\ 17 + 30 < 63

C19_Witness ==
  /\ Printed /\ ts_total.tv_nsec >= NSEC_PER_SEC
  /\ ts_total.tv_nsec = BENCH_SIZE * (NSEC_PER_SEC - 1)

\* Where thread2 can be: not created, running lines 99-121, or blocked in
\* l4_ipc_wait or l4_ipc_reply_and_wait.
T2Places == {"none", "start", "wait", "check", "stamp", "reply"}

\* C20: thread2_fn has no terminal state: whenever it is running it has a
\* next step, every step of it leads to a place of its loop again, also
\* after the initiator has finished; and no step that moves thread2 changes
\* ts_total, tsc_sum or the initiator's loop counter.
C20_ResponderForever ==
  /\ [](rpc \in T2Places)
  /\ [](rpc \in {"start", "check", "stamp"} => ENABLED T2Step)
  /\ [][rpc' # rpc => /\ rpc' \in T2Places \ {"none"}
                      /\ UNCHANGED <<ts_total, tsc_sum, i>>]_vars

C20_Witness == Printed /\ rpc = "check" /\ tag2 # 0 /\ hist.sent = BENCH_SIZE + 1

====
